---- MODULE Spec2Model ----
(***************************************************************************)
(* StreamLedger, src/build_epg.py: the curated-EPG build.                  *)
(*                                                                         *)
(* One run of main() is modelled as a sequence of steps (pc): check the    *)
(* curated list, load the configuration and the report, extract targets,   *)
(* download every source (one step per GET attempt), the assignment pass   *)
(* (one step per source), the coverage gate, the output writer.            *)
(* The file system (curated list, configuration, cache directory, report,  *)
(* output artifact) and the remote servers are the environment.            *)
(*                                                                         *)
(* Strings that the code normalises are sequences of one-character         *)
(* strings; channel ids, file names and reason codes are atoms.            *)
(* Coverage thresholds are percentages (0.80 is 80); a coverage value is   *)
(* the pair matched/target and is compared by cross-multiplication.        *)
(***************************************************************************)
EXTENDS Integers, Sequences, FiniteSets, TLC

VARIABLES
    curated,                  \* outputs/curated.m3u: whether it exists, its #EXTINF entries
    config,                   \* config/streamledger.yml: the keys main() reads
    remote,                   \* url -> the document the server sends on a full transfer
    cache,                    \* cache/epg: file name -> file
    reportFile,               \* outputs/report.json: whether it exists, the report in it
    outFile,                  \* outputs/curated_epg.xml.gz: whether it exists, its document
    pc,                       \* position of main()
    rc,                       \* return value of main(), -1 while running
    rep,                      \* the report dict of main()
    loaded,                   \* the report as load_report returned it
    wanted_ids, wanted_names, \* parse_curated_targets' result
    url_i,                    \* index of the url the download loop is at
    attempt,                  \* GET attempts made by the running download_epg call
    last_reason,              \* last_reason of the running download_epg call
    epg_paths,                \* list of fetched files (names in the cache directory)
    per_url_status,           \* list of per-source fetch outcomes
    remaining_ids, remaining_names,
    per_source_assignments,   \* insertion-ordered dict: sequence of <<path, ids>>
    channel_xml_by_id_global, \* insertion-ordered dict: sequence of <<id, record>>
    kept_all_ids,
    src_k,                    \* index in epg_paths the assignment loop is at
    coverage,                 \* <<matched, denominator>> once computed, <<>> before
    calls,                    \* how often the run has called each operation
    call,                     \* the running download_epg call: its GETs so far
    returns,                  \* the download_epg calls that returned, in order
    processed,                \* the passes of the assignment loop made so far, in order
    opened                    \* the files write_final_xml has opened, in order

envVars    == <<curated, config, remote>>
targetVars == <<wanted_ids, wanted_names>>
fetchVars  == <<url_i, attempt, last_reason, epg_paths, per_url_status, call, returns>>
assignVars == <<remaining_ids, remaining_names, per_source_assignments,
                channel_xml_by_id_global, kept_all_ids, src_k>>
vars == <<curated, config, remote, cache, reportFile, outFile, pc, rc, rep, loaded,
          wanted_ids, wanted_names, url_i, attempt, last_reason, epg_paths,
          per_url_status, remaining_ids, remaining_names, per_source_assignments,
          channel_xml_by_id_global, kept_all_ids, src_k, coverage, calls, call,
          returns, processed, opened>>

----------------------------------------------------------------------------
(* Bounds of the model *)

MaxSources  == 2   \* configured EPG urls per run
MaxEntries  == 2   \* #EXTINF entries in the curated list
MaxElems    == 2   \* elements in one enumerated source document (SpecAssign)
MaxRetries  == 1   \* largest configured validation.deep.retries
MaxLen      == 3   \* characters of an enumerated channel name (SpecNorm)

(* Defaults of the configuration keys *)
DefaultSoftMin  == 80
DefaultHardFail == 30
DefaultRetries  == 2

----------------------------------------------------------------------------
(* Sequences *)

Range(s) == {s[i] : i \in 1..Len(s)}

SeqsUpTo(S, n) == UNION {[1..k -> S] : k \in 0..n}

Max(a, b) == IF a >= b THEN a ELSE b

(* An insertion-ordered dict is a sequence of <<key, value>> without        *)
(* repeated keys; assigning to a present key keeps the key's position.      *)
DictKeys(d) == {d[i][1] : i \in 1..Len(d)}

DictGet(d, k) == d[CHOOSE i \in 1..Len(d) : d[i][1] = k][2]

DictSet(d, k, v) ==
    IF k \in DictKeys(d)
    THEN [i \in 1..Len(d) |-> IF d[i][1] = k THEN <<k, v>> ELSE d[i]]
    ELSE Append(d, <<k, v>>)

----------------------------------------------------------------------------
(* Normalization: norm(s) *)

IsSpace(c) == c = " "

IsWordChar(c) == c \in {"a", "b", "A", "B"}

Lower(c) == CASE c = "A" -> "a" [] c = "B" -> "b" [] OTHER -> c

RECURSIVE LStrip(_)
LStrip(s) == IF s # <<>> /\ IsSpace(Head(s)) THEN LStrip(Tail(s)) ELSE s

RECURSIVE RStrip(_)
RStrip(s) ==
    IF s # <<>> /\ IsSpace(s[Len(s)]) THEN RStrip(SubSeq(s, 1, Len(s) - 1)) ELSE s

\* str.strip()
Strip(s) == RStrip(LStrip(s))

\* str.lower()
LowerStr(s) == [i \in 1..Len(s) |-> Lower(s[i])]

\* re.sub(r"\s+", " ", s)
RECURSIVE CollapseSpaces(_)
CollapseSpaces(s) ==
    IF s = <<>> THEN <<>>
    ELSE IF IsSpace(Head(s)) THEN <<" ">> \o CollapseSpaces(LStrip(s))
    ELSE <<Head(s)>> \o CollapseSpaces(Tail(s))

\* re.sub(r"[^\w ]+", "", s)
DropNonWord(s) == SelectSeq(s, LAMBDA c : IsWordChar(c) \/ c = " ")

norm(s) == DropNonWord(CollapseSpaces(LowerStr(Strip(s))))

----------------------------------------------------------------------------
(* Targets from curated.m3u: parse_curated_targets *)

\* tvg_name or disp, both stripped
EntryName(e) ==
    IF Strip(e.tvg_name) # <<>> THEN Strip(e.tvg_name) ELSE Strip(e.disp)

ParseWantedIds(entries) == {e.tvg_id : e \in Range(entries)} \ {""}

ParseWantedNames(entries) == {norm(EntryName(e)) : e \in Range(entries)} \ {<<>>}

----------------------------------------------------------------------------
(* Files of the cache directory and source documents.                      *)
(* A data file holds the elements a streaming parse yields, in document    *)
(* order; good = FALSE means the parser raises after the last of them      *)
(* (malformed or truncated document). origin is the url it was downloaded  *)
(* from.                                                                   *)

NoFile == [kind |-> "absent"]

EmptyFile == [kind |-> "empty"]

DataFile(elems, good, origin) ==
    [kind |-> "data", elems |-> elems, good |-> good, origin |-> origin]

\* dest.exists() and dest.stat().st_size > 0
ExistsNonEmpty(f) == f.kind = "data"

\* dest = CACHE_DIR / Path(url).name ; a url is <<host, file name>>
DestOf(url) == url[2]

----------------------------------------------------------------------------
(* EPG indexing: index_epg_channels, build_name_to_ids *)

\* the normalized, non-empty display names of a channel element
DisplayNorms(el) ==
    SelectSeq([i \in 1..Len(el.names) |-> norm(el.names[i])], LAMBDA n : n # <<>>)

\* one "end" event of the parse
IndexElement(d, el) ==
    IF el.tag # "channel" THEN d
    ELSE IF el.id = "" THEN d
    ELSE DictSet(d, el.id, [norms |-> DisplayNorms(el), xml |-> el])

RECURSIVE IndexElements(_, _)
IndexElements(d, elems) ==
    IF elems = <<>> THEN d
    ELSE IndexElements(IndexElement(d, Head(elems)), Tail(elems))

\* Both returned dicts have the same keys in the same order: one dict
\* id -> [norms, xml]. A parse error is caught: what was indexed is returned.
index_epg_channels(f) ==
    IF f.kind = "data" THEN IndexElements(<<>>, f.elems) ELSE <<>>

\* the keys of name_to_ids
NameKeys(d) == UNION {Range(d[i][2].norms) : i \in 1..Len(d)}

\* cid once for every occurrence of n in norms
RECURSIVE IdsOfNorms(_, _, _)
IdsOfNorms(cid, norms, n) ==
    IF norms = <<>> THEN <<>>
    ELSE (IF Head(norms) = n THEN <<cid>> ELSE <<>>) \o IdsOfNorms(cid, Tail(norms), n)

RECURSIVE IdsOfName(_, _)
IdsOfName(d, n) ==
    IF d = <<>> THEN <<>>
    ELSE IdsOfNorms(Head(d)[1], Head(d)[2].norms, n) \o IdsOfName(Tail(d), n)

build_name_to_ids(d) == [n \in NameKeys(d) |-> IdsOfName(d, n)]

----------------------------------------------------------------------------
(* Report: load_report, add_warning.                                       *)
(* A report is a dict: a function from keys to values. A warning is a      *)
(* record: its code and, for the coverage warnings, the formatted coverage *)
(* (in 1/10000) and the threshold (in 1/100).                              *)

EmptyDict == [k \in {} |-> 0]

load_report == IF reportFile.exists THEN reportFile.content ELSE EmptyDict

\* write_report(rep): the file afterwards
write_report(r) == [exists |-> TRUE, content |-> r]

\* rep.setdefault("warnings", []); rep["warnings"].append(msg)
add_warning(r, msg) ==
    IF "warnings" \in DOMAIN r
    THEN [r EXCEPT !["warnings"] = Append(@, msg)]
    ELSE ("warnings" :> <<msg>>) @@ r

\* rep.setdefault("epg", {}); rep["epg"][key] = value
SetEpg(r, key, value) ==
    LET old == IF "epg" \in DOMAIN r THEN r["epg"] ELSE EmptyDict
    IN  ("epg" :> ((key :> value) @@ old)) @@ r

Warning(code) == [code |-> code]

CoverageWarning(code, cov4, thr) == [code |-> code, cov |-> cov4, thr |-> thr]

----------------------------------------------------------------------------
(* Assignment pass, one source: lines 389-421 *)

\* MergeRecords in which the later source's record replaces the stored one
MergeRecords_LastWins(global, d) ==
    SelectSeq(global, LAMBDA it : it[1] \notin DictKeys(d))
    \o [i \in 1..Len(d) |-> <<d[i][1], d[i][2].xml>>]

\* first-writer-wins merge of a source's records into the global map
RECURSIVE MergeRecords(_, _)
MergeRecords(global, d) ==
    IF d = <<>> THEN global
    ELSE MergeRecords(
            IF Head(d)[1] \in DictKeys(global) THEN global
            ELSE Append(global, <<Head(d)[1], Head(d)[2].xml>>),
            Tail(d))

\* IdMatches that matches nothing
IdMatches_None(ids_list, d) == {}

\* list(S): the members of a set, in the order the iteration yields them
Orders(S) == {s \in [1..Cardinality(S) -> S] : Range(s) = S}

\* tvg-id priority: the loop over list(remaining_ids)
RECURSIVE IdMatches(_, _)
IdMatches(ids_list, d) ==
    IF ids_list = <<>> THEN {}
    ELSE (IF Head(ids_list) \in DictKeys(d) THEN {Head(ids_list)} ELSE {})
         \cup IdMatches(Tail(ids_list), d)

\* NameMatches that takes every id of the source once a name is outstanding
NameMatches_AnyId(names_list, d) ==
    IF names_list = <<>> THEN {} ELSE DictKeys(d)

\* NameMatches that stops at the first name of the iteration
NameMatches_FirstOnly(names_list, d) ==
    IF names_list = <<>> \/ Head(names_list) \notin NameKeys(d) THEN {}
    ELSE {IdsOfName(d, Head(names_list))[1]}

\* name fallback: the loop over list(remaining_names), ids[0] of every
\* outstanding name the source knows
RECURSIVE NameMatches(_, _)
NameMatches(names_list, d) ==
    LET name_to_ids == build_name_to_ids(d)
    IN  IF names_list = <<>> THEN {}
        ELSE (IF Head(names_list) \in DOMAIN name_to_ids
              THEN {name_to_ids[Head(names_list)][1]} ELSE {})
             \cup NameMatches(Tail(names_list), d)

MatchedIds(ids_list, names_list, d) ==
    IdMatches(ids_list, d) \cup NameMatches(names_list, d)

\* MatchedNames that removes no name
MatchedNames_None(rem_names, d) == {}

\* matched_names = {nm for nm in remaining_names if nm in name_to_ids}
MatchedNames(rem_names, d) == rem_names \cap NameKeys(d)

\* the state the loop of lines 385-423 carries from source to source
PassState(ids, names, assignments, records, kept) ==
    [remaining_ids |-> ids, remaining_names |-> names,
     per_source_assignments |-> assignments,
     channel_xml_by_id_global |-> records, kept_all_ids |-> kept]

\* list(S) in one fixed order
SomeOrder(S) == CHOOSE s \in Orders(S) : TRUE

\* lines 378-423 as a function of the files: the loop from state st over
\* paths, every set iterated in the fixed order
RECURSIVE assignment_pass(_, _, _)
assignment_pass(st, paths, files) ==
    IF paths = <<>> \/ (st.remaining_ids = {} /\ st.remaining_names = {}) THEN st
    ELSE LET d       == index_epg_channels(files[Head(paths)])
             matched == MatchedIds(SomeOrder(st.remaining_ids),
                                   SomeOrder(st.remaining_names), d)
             records == MergeRecords(st.channel_xml_by_id_global, d)
         IN  assignment_pass(
                IF matched # {}
                THEN PassState(st.remaining_ids \ matched,
                               st.remaining_names \ MatchedNames(st.remaining_names, d),
                               DictSet(st.per_source_assignments, Head(paths), matched),
                               records,
                               st.kept_all_ids \cup matched)
                ELSE [st EXCEPT !.channel_xml_by_id_global = records],
                Tail(paths), files)

----------------------------------------------------------------------------
(* Coverage gate: lines 432-443 *)

\* len(wanted_ids) if wanted_ids else len(wanted_names)
TargetChannels(ids, names) ==
    IF ids # {} THEN Cardinality(ids) ELSE Cardinality(names)

\* coverage = len(kept_all_ids) / max(1, target): the pair <<numerator, denominator>>
Coverage(kept, ids, names) ==
    <<Cardinality(kept), Max(1, TargetChannels(ids, names))>>

\* coverage < threshold, the threshold in 1/100
Below(cov, thr) == cov[1] * 100 < thr * cov[2]

\* round(coverage, 4) and f"{coverage:.4f}", in 1/10000
Round4(cov) == (cov[1] * 20000 + cov[2]) \div (2 * cov[2])

\* GateWarnings without the soft-min warning
GateWarnings_HardOnly(r, cov, soft, hard) ==
    IF Below(cov, hard)
    THEN add_warning(r, CoverageWarning("epg_coverage_below_hard_fail", Round4(cov), hard))
    ELSE r

\* the warnings of lines 437-441
GateWarnings(r, cov, soft, hard) ==
    LET r1 == IF Below(cov, soft)
              THEN add_warning(r, CoverageWarning("epg_coverage_below_soft_min",
                                                  Round4(cov), soft))
              ELSE r
    IN  IF Below(cov, hard)
        THEN add_warning(r1, CoverageWarning("epg_coverage_below_hard_fail",
                                             Round4(cov), hard))
        ELSE r1

\* HardFails with <= for <
HardFails_AtOrBelow(cov, soft, hard) == cov[1] * 100 <= hard * cov[2]

\* HardFails comparing with the soft threshold
HardFails_BelowSoft(cov, soft, hard) == Below(cov, soft)

\* the run hard-fails at line 440
HardFails(cov, soft, hard) == Below(cov, hard)

----------------------------------------------------------------------------
(* Output writer: write_final_xml, gzip_output *)

\* lexicographic order of the channel ids of the model
IdOrder == <<"a", "b", "c">>

\* SortedIds in descending order
SortedIds_Descending(S) == SelectSeq(<<"c", "b", "a">>, LAMBDA x : x \in S)

\* sorted(kept_all_ids)
SortedIds(S) == SelectSeq(IdOrder, LAMBDA x : x \in S)

\* the channel section
ChannelSection(kept, global) ==
    LET ids == SelectSeq(SortedIds(kept), LAMBDA cid : cid \in DictKeys(global))
    IN  [i \in 1..Len(ids) |-> DictGet(global, ids[i])]

\* ProgrammesOf without the test of the channel attribute
ProgrammesOf_AnyChannel(f, ids) ==
    IF ids = {} \/ f.kind # "data" THEN <<>>
    ELSE SelectSeq(f.elems, LAMBDA el : el.tag = "programme")

\* the programmes one source contributes; a parse error is caught after them
ProgrammesOf(f, ids) ==
    IF ids = {} \/ f.kind # "data" THEN <<>>
    ELSE SelectSeq(f.elems, LAMBDA el : el.tag = "programme" /\ el.channel \in ids)

RECURSIVE ProgrammeSection(_, _)
ProgrammeSection(assignments, files) ==
    IF assignments = <<>> THEN <<>>
    ELSE ProgrammesOf(files[Head(assignments)[1]], Head(assignments)[2])
         \o ProgrammeSection(Tail(assignments), files)

\* the files the programme loop opens: the keys with a non-empty id set
OpenedFiles(assignments) ==
    LET kept_items == SelectSeq(assignments, LAMBDA it : it[2] # {})
    IN  [i \in 1..Len(kept_items) |-> kept_items[i][1]]

\* the records written between <tv> and </tv>, in the order written
write_final_xml(kept, global, assignments, files) ==
    ChannelSection(kept, global) \o ProgrammeSection(assignments, files)

----------------------------------------------------------------------------
(* Download: http_get_to_file, download_epg *)

\* What one GET can do. exc_stream: the transfer breaks after n complete
\* elements were written (n = -1: before the first byte was written).
GetOutcomes(doc) ==
    {[kind |-> k, n |-> 0] : k \in {"exc_get", "http_error", "body_empty", "body_full"}}
    \cup {[kind |-> "exc_stream", n |-> k] : k \in -1..Len(doc.elems)}

\* the destination file after http_get_to_file
FileAfterGet(old, o, url, doc) ==
    CASE o.kind \in {"exc_get", "http_error"} -> old
      [] o.kind = "body_empty" -> EmptyFile
      [] o.kind = "exc_stream" ->
            IF o.n < 0 THEN EmptyFile
            ELSE DataFile(SubSeq(doc.elems, 1, o.n), FALSE, url)
      [] o.kind = "body_full" -> DataFile(doc.elems, doc.good, url)

\* (ok, reason) of http_get_to_file
http_get_to_file(old, o, url, doc) ==
    CASE o.kind = "exc_get" -> <<FALSE, "exc">>
      [] o.kind = "http_error" -> <<FALSE, "http">>
      [] o.kind = "exc_stream" -> <<FALSE, "exc">>
      [] OTHER ->
            IF ExistsNonEmpty(FileAfterGet(old, o, url, doc))
            THEN <<TRUE, "ok">> ELSE <<FALSE, "empty">>

\* MaxAttempts with one pass too many
MaxAttempts_OneMore(retries) == Max(1, retries + 2)

\* range(max(1, retries + 1))
MaxAttempts(retries) == Max(1, retries + 1)

\* per_url_status entries
StatusOk(url, reason, file) == [url |-> url, ok |-> TRUE, reason |-> reason, file |-> file]

StatusFailed(url, reason) == [url |-> url, ok |-> FALSE, reason |-> reason]

----------------------------------------------------------------------------
(* main *)

\* the record of a download_epg call: the GETs it issued, how many of them
\* transferred the whole body, and what the last one did
NoGets == [gets |-> 0, oks |-> 0, last |-> "none"]

Returned(url, hit, got, path, reason) ==
    [url |-> url, hit |-> hit, gets |-> got.gets, oks |-> got.oks, last |-> got.last,
     path |-> path, reason |-> reason]

Bump(c, op) == [c EXCEPT ![op] = @ + 1]

NoCalls ==
    [download_epg |-> 0, get |-> 0, index |-> 0, write_report |-> 0,
     write_final_xml |-> 0, gzip_output |-> 0]

InitWith(Curateds, Configs, Remotes, Caches, Reports) ==
    /\ curated \in Curateds
    /\ config \in Configs
    /\ remote \in Remotes
    /\ cache \in Caches
    /\ reportFile \in Reports
    /\ outFile = [exists |-> FALSE]
    /\ pc = "start"
    /\ rc = -1
    /\ rep = EmptyDict
    /\ loaded = EmptyDict
    /\ wanted_ids = {}
    /\ wanted_names = {}
    /\ url_i = 1
    /\ attempt = 0
    /\ last_reason = "unknown"
    /\ epg_paths = <<>>
    /\ per_url_status = <<>>
    /\ remaining_ids = {}
    /\ remaining_names = {}
    /\ per_source_assignments = <<>>
    /\ channel_xml_by_id_global = <<>>
    /\ kept_all_ids = {}
    /\ src_k = 1
    /\ coverage = <<>>
    /\ calls = NoCalls
    /\ call = NoGets
    /\ returns = <<>>
    /\ processed = <<>>
    /\ opened = <<>>

\* CuratedMissing with the test left out
CuratedMissing_Never(c) == FALSE

\* line 327: not CURATED_M3U.exists()
CuratedMissing(c) == ~ c.exists

\* lines 327-329
CheckCurated ==
    /\ pc = "start"
    /\ IF CuratedMissing(curated)
       THEN pc' = "done" /\ rc' = 2
       ELSE pc' = "load" /\ rc' = rc
    /\ UNCHANGED <<loaded, processed, opened, envVars, cache, reportFile, outFile, rep, targetVars, fetchVars,
                   assignVars, coverage, calls>>

\* lines 331-349
LoadConfig ==
    /\ pc = "load"
    /\ IF config.epg = <<>>
       THEN /\ rep' = add_warning(load_report, Warning("epg_no_sources_configured"))
            /\ loaded' = load_report
            /\ reportFile' = write_report(rep')
            /\ calls' = Bump(calls, "write_report")
            /\ pc' = "done"
            /\ rc' = 2
       ELSE /\ rep' = load_report
            /\ loaded' = load_report
            /\ pc' = "targets"
            /\ UNCHANGED <<reportFile, calls, rc>>
    /\ UNCHANGED <<processed, opened, envVars, cache, outFile, targetVars, fetchVars,
                   assignVars, coverage>>

\* lines 351-357
ParseTargets ==
    /\ pc = "targets"
    /\ wanted_ids' = ParseWantedIds(curated.entries)
    /\ wanted_names' = ParseWantedNames(curated.entries)
    /\ url_i' = 1
    /\ epg_paths' = <<>>
    /\ per_url_status' = <<>>
    /\ pc' = "fetch"
    /\ UNCHANGED <<loaded, processed, opened, envVars, cache, reportFile, outFile, rc, rep, attempt, last_reason,
                   assignVars, coverage, calls, call, returns>>

\* lines 359-360 and 162-168: the next url, download_epg up to its first GET
DownloadStart ==
    /\ pc = "fetch"
    /\ url_i <= Len(config.epg)
    /\ LET url  == config.epg[url_i]
           dest == DestOf(url)
       IN  IF ExistsNonEmpty(cache[dest])
           THEN /\ epg_paths' = Append(epg_paths, dest)
                /\ per_url_status' = Append(per_url_status, StatusOk(url, "cache_hit", dest))
                /\ url_i' = url_i + 1
                /\ returns' = Append(returns, Returned(url, TRUE, NoGets, dest, "cache_hit"))
                /\ UNCHANGED <<pc, attempt, last_reason, call>>
           ELSE /\ attempt' = 0
                /\ last_reason' = "unknown"
                /\ call' = NoGets
                /\ pc' = "get"
                /\ UNCHANGED <<epg_paths, per_url_status, url_i, returns>>
    /\ calls' = Bump(calls, "download_epg")
    /\ UNCHANGED <<loaded, processed, opened, envVars, cache, reportFile, outFile, rc, rep, targetVars, assignVars,
                   coverage>>

\* lines 169-176 and 361-367: one pass of the retry loop, and what main does
\* with the result when download_epg returns
HttpGet ==
    /\ pc = "get"
    /\ attempt < MaxAttempts(config.retries)
    /\ LET url  == config.epg[url_i]
           dest == DestOf(url)
       IN  \E o \in GetOutcomes(remote[url]) :
             LET res == http_get_to_file(cache[dest], o, url, remote[url])
                 got == [gets |-> call.gets + 1,
                         oks  |-> call.oks + (IF o.kind = "body_full" THEN 1 ELSE 0),
                         last |-> o.kind]
             IN  /\ call' = got
                 /\ cache' = [cache EXCEPT ![dest] = FileAfterGet(@, o, url, remote[url])]
                 /\ last_reason' = res[2]
                 /\ attempt' = attempt + 1
                 /\ IF res[1]
                    THEN /\ epg_paths' = Append(epg_paths, dest)
                         /\ per_url_status' =
                                Append(per_url_status, StatusOk(url, res[2], dest))
                         /\ url_i' = url_i + 1
                         /\ returns' = Append(returns, Returned(url, FALSE, got, dest, res[2]))
                         /\ pc' = "fetch"
                    ELSE IF attempt + 1 < MaxAttempts(config.retries)
                    THEN UNCHANGED <<epg_paths, per_url_status, url_i, pc, returns>>
                    ELSE /\ per_url_status' =
                                Append(per_url_status, StatusFailed(url, res[2]))
                         /\ url_i' = url_i + 1
                         /\ returns' = Append(returns, Returned(url, FALSE, got, "none", res[2]))
                         /\ pc' = "fetch"
                         /\ UNCHANGED epg_paths
    /\ calls' = Bump(calls, "get")
    /\ UNCHANGED <<loaded, processed, opened, envVars, reportFile, outFile, rc, rep, targetVars, assignVars, coverage>>

\* NoSourceFetched with the test left out
NoSourceFetched_Never(paths) == FALSE

\* NoSourceFetched that asks for two fetched sources
NoSourceFetched_FewerThanTwo(paths) == Len(paths) < 2

\* line 372: not epg_paths
NoSourceFetched(paths) == paths = <<>>

\* lines 369-383
FetchDone ==
    /\ pc = "fetch"
    /\ url_i > Len(config.epg)
    /\ IF NoSourceFetched(epg_paths)
       THEN /\ rep' = add_warning(SetEpg(rep, "sources", per_url_status),
                                  Warning("epg_all_sources_failed_download"))
            /\ reportFile' = write_report(rep')
            /\ calls' = Bump(calls, "write_report")
            /\ pc' = "done"
            /\ rc' = 2
            /\ UNCHANGED assignVars
       ELSE /\ rep' = SetEpg(rep, "sources", per_url_status)
            /\ remaining_ids' = wanted_ids
            /\ remaining_names' = wanted_names
            /\ per_source_assignments' = <<>>
            /\ channel_xml_by_id_global' = <<>>
            /\ kept_all_ids' = {}
            /\ src_k' = 1
            /\ pc' = "assign"
            /\ UNCHANGED <<reportFile, calls, rc>>
    /\ UNCHANGED <<loaded, processed, opened, envVars, cache, outFile, targetVars, fetchVars, coverage>>

\* one pass of the loop of lines 385-423: the source, the outstanding targets
\* before it, what it matched, and the outstanding targets, kept_all_ids and
\* the global record map after it
Pass(path, ids, names, matched, ids_left, names_left, kept, records) ==
    [path |-> path, ids |-> ids, names |-> names, matched |-> matched,
     ids_left |-> ids_left, names_left |-> names_left, kept |-> kept,
     records |-> records]

\* lines 385-423: one source of the assignment pass
AssignSource ==
    /\ pc = "assign"
    /\ src_k <= Len(epg_paths)
    /\ ~ (remaining_ids = {} /\ remaining_names = {})
    /\ \E ids_list \in Orders(remaining_ids), names_list \in Orders(remaining_names) :
       LET epg_path    == epg_paths[src_k]
           d           == index_epg_channels(cache[epg_path])
           matched_ids == MatchedIds(ids_list, names_list, d)
       IN  /\ channel_xml_by_id_global' = MergeRecords(channel_xml_by_id_global, d)
           /\ IF matched_ids # {}
              THEN /\ per_source_assignments' =
                          DictSet(per_source_assignments, epg_path, matched_ids)
                   /\ kept_all_ids' = kept_all_ids \cup matched_ids
                   /\ remaining_ids' = remaining_ids \ matched_ids
                   /\ remaining_names' = remaining_names \ MatchedNames(remaining_names, d)
              ELSE UNCHANGED <<per_source_assignments, kept_all_ids, remaining_ids,
                               remaining_names>>
           /\ processed' = Append(processed,
                                  Pass(epg_path, remaining_ids, remaining_names, matched_ids,
                                       remaining_ids', remaining_names', kept_all_ids',
                                       channel_xml_by_id_global'))
    /\ src_k' = src_k + 1
    /\ calls' = Bump(calls, "index")
    /\ UNCHANGED <<loaded, opened, envVars, cache, reportFile, outFile, pc, rc, rep,
                   targetVars, fetchVars, coverage>>

\* lines 386-387 (loop exit) and 425-435
AssignDone ==
    /\ pc = "assign"
    /\ src_k > Len(epg_paths) \/ (remaining_ids = {} /\ remaining_names = {})
    /\ IF kept_all_ids = {}
       THEN /\ rep' = SetEpg(add_warning(rep, Warning("epg_no_matches_found")),
                             "coverage", 0)
            /\ reportFile' = write_report(rep')
            /\ calls' = Bump(calls, "write_report")
            /\ pc' = "done"
            /\ rc' = 2
            /\ UNCHANGED coverage
       ELSE LET cov == Coverage(kept_all_ids, wanted_ids, wanted_names)
            IN  /\ coverage' = cov
                /\ rep' = SetEpg(SetEpg(SetEpg(rep,
                              "matched_channels", Cardinality(kept_all_ids)),
                              "target_channels", TargetChannels(wanted_ids, wanted_names)),
                              "coverage", Round4(cov))
                /\ pc' = "gate"
                /\ UNCHANGED <<reportFile, calls, rc>>
    /\ UNCHANGED <<loaded, processed, opened, envVars, cache, outFile, targetVars, fetchVars, assignVars>>

\* lines 437-443
CoverageGate ==
    /\ pc = "gate"
    /\ rep' = GateWarnings(rep, coverage, config.soft_min, config.hard_fail)
    /\ IF HardFails(coverage, config.soft_min, config.hard_fail)
       THEN /\ reportFile' = write_report(rep')
            /\ calls' = Bump(calls, "write_report")
            /\ pc' = "done"
            /\ rc' = 2
       ELSE /\ pc' = "write"
            /\ UNCHANGED <<reportFile, calls, rc>>
    /\ UNCHANGED <<loaded, processed, opened, envVars, cache, outFile, targetVars, fetchVars, assignVars, coverage>>

\* lines 445-451
WriteOutputs ==
    /\ pc = "write"
    /\ outFile' = [exists |-> TRUE,
                   doc |-> write_final_xml(kept_all_ids, channel_xml_by_id_global,
                                           per_source_assignments, cache)]
    /\ reportFile' = write_report(rep)
    /\ calls' = Bump(Bump(Bump(calls, "write_final_xml"), "gzip_output"), "write_report")
    /\ pc' = "done"
    /\ rc' = 0
    /\ opened' = OpenedFiles(per_source_assignments)
    /\ UNCHANGED <<loaded, processed, envVars, cache, rep, targetVars, fetchVars, assignVars,
                   coverage>>

Next ==
    \/ CheckCurated
    \/ LoadConfig
    \/ ParseTargets
    \/ DownloadStart
    \/ HttpGet
    \/ FetchDone
    \/ AssignSource
    \/ AssignDone
    \/ CoverageGate
    \/ WriteOutputs

----------------------------------------------------------------------------
(* The inputs of a run *)

\* urls: <<host, file name>>; U1 and U3 have the same file name
U1 == <<"h1", "a.xml">>
U2 == <<"h2", "b.xml">>
U3 == <<"h3", "a.xml">>
Urls == {U1, U2, U3}
FileNames == {DestOf(u) : u \in Urls}

\* elements of a source document
Chan(id, names) == [tag |-> "channel", id |-> id, names |-> names]
Prog(ch) == [tag |-> "programme", channel |-> ch]

Doc(elems, good) == [elems |-> elems, good |-> good]

\* #EXTINF entries: id and name, name only, id only (its name normalizes to "")
E1 == [tvg_id |-> "a", tvg_name |-> <<"A">>, disp |-> <<"A">>]
E2 == [tvg_id |-> "", tvg_name |-> <<>>, disp |-> <<" ", "b">>]
E3 == [tvg_id |-> "b", tvg_name |-> <<"-">>, disp |-> <<"B">>]
Entries == {E1, E2, E3}

CuratedFiles(entrySeqs) == {[exists |-> TRUE, entries |-> es] : es \in entrySeqs}
CuratedAbsent == [exists |-> FALSE, entries |-> <<>>]

Thresholds == {DefaultHardFail, 50, DefaultSoftMin, 100}

ConfigsOf(urlLists, softs, hards, retries) ==
    [epg : urlLists, soft_min : softs, hard_fail : hards, retries : retries]

ReportAbsent == [exists |-> FALSE]

\* a report an earlier pipeline step and an earlier build left behind
ReportStale ==
    [exists |-> TRUE,
     content |-> [warnings |-> <<Warning("final_written_below_min")>>,
                  epg |-> [coverage |-> 10000]]]

\* cache directories: a file for each of the two file names
CachesOf(as, bs) == {("a.xml" :> fa) @@ ("b.xml" :> fb) : fa \in as, fb \in bs}

----------------------------------------------------------------------------
(* Spec: runs over every configured url list of up to MaxSources urls and  *)
(* one of three, every retry count, cache content and curated list; the    *)
(* servers' documents are fixed, the one of U3 is malformed.               *)

RemoteFixed ==
    (U1 :> Doc(<<Chan("a", <<<<"A">>>>), Prog("a")>>, TRUE))
    @@ (U2 :> Doc(<<Chan("b", <<<<"b">>>>), Prog("b")>>, TRUE))
    @@ (U3 :> Doc(<<Chan("c", <<<<"A">>>>)>>, FALSE))

\* what an earlier run may have left in the cache directory
CachedFiles(name) ==
    {NoFile} \cup
    {DataFile(RemoteFixed[u].elems, RemoteFixed[u].good, u) : u \in {v \in Urls : DestOf(v) = name}}

Init ==
    InitWith(CuratedFiles({<<>>, <<E1, E2>>}) \cup {CuratedAbsent},
             ConfigsOf(SeqsUpTo(Urls, MaxSources) \cup {<<U1, U3, U2>>}, {DefaultSoftMin},
                       {DefaultHardFail}, -1..MaxRetries),
             {RemoteFixed},
             CachesOf(CachedFiles("a.xml"), CachedFiles("b.xml")),
             {ReportAbsent, ReportStale})

Spec == Init /\ [][Next]_vars

----------------------------------------------------------------------------
(* SpecGate: runs over every pair of coverage thresholds, with curated     *)
(* lists and source documents that give coverages below, at and above      *)
(* them.                                                                   *)

GateDocs ==
    {<<>>,
     <<Chan("a", <<>>)>>,
     <<Chan("a", <<>>), Chan("b", <<<<"b">>>>)>>,
     <<Chan("c", <<<<"A">>>>), Chan("b", <<<<"B">>>>)>>}

GateFiles(url, docs) == {DataFile(es, TRUE, url) : es \in docs}

InitGate ==
    InitWith(CuratedFiles(SeqsUpTo(Entries, MaxEntries)),
             ConfigsOf({<<>>, <<U1>>, <<U1, U2>>}, Thresholds, Thresholds, {DefaultRetries}),
             {RemoteFixed},
             CachesOf(GateFiles(U1, GateDocs),
                      {NoFile} \cup GateFiles(U2, {<<Chan("c", <<<<"A">>>>),
                                                    Chan("b", <<<<"B">>>>)>>})),
             {ReportAbsent, ReportStale})

SpecGate == InitGate /\ [][Next]_vars

----------------------------------------------------------------------------------------------------------------------------------------
(* SpecAssign: runs over the contents of the cached source files, in both  *)
(* orders of the two sources, with default thresholds and a single GET     *)
(* attempt. One file holds any document of up to MaxElems channel          *)
(* elements, whole or truncated, the other any whole document of one.      *)

AssignNames == {<<>>, <<<<"A">>>>, <<<<"b">>>>}

AssignElems == {Chan(id, ns) : id \in {"a", "b"}, ns \in AssignNames}

AssignFiles(url, n) ==
    {NoFile} \cup
    {DataFile(es, g, url) : es \in SeqsUpTo(AssignElems, n), g \in BOOLEAN}

AssignSingles(url) ==
    {NoFile} \cup {DataFile(<<e>>, TRUE, url) : e \in AssignElems}

\* the curated lists over Entries that hold a name target, up to order and
\* repetition
AssignCurated ==
    CuratedFiles({<<E1>>, <<E2>>, <<E1, E2>>, <<E1, E3>>, <<E2, E3>>})

InitAssign ==
    InitWith(AssignCurated,
             ConfigsOf({<<>>, <<U1, U2>>, <<U2, U1>>}, {DefaultSoftMin},
                       {DefaultHardFail}, {0}),
             {RemoteFixed},
             CachesOf(AssignFiles(U1, MaxElems), AssignSingles(U2)),
             {ReportAbsent})

SpecAssign == InitAssign /\ [][Next]_vars

----------------------------------------------------------------------------
(* SpecWrite: runs over source documents that hold programmes, channel     *)
(* elements out of id order, and a repeated channel id.                    *)

\* channels b and a, out of id order, and a programme of each
DocBA ==
    <<Chan("b", <<<<"b">>>>), Chan("a", <<<<"A">>>>), Prog("a"), Prog("b")>>

\* channel a twice: without a name before channel b, named like b after it
DocTie ==
    <<Chan("a", <<>>), Chan("b", <<<<"b">>>>), Chan("a", <<<<"b">>>>), Prog("a")>>

\* programmes around their channel, which has two names
DocMixed ==
    <<Prog("b"), Chan("b", <<<<"A">>, <<"b">>>>), Prog("a"), Prog("b")>>

\* channel a under the name b
DocAlias ==
    <<Chan("a", <<<<"b">>>>), Prog("a"), Prog("b")>>

WriteDocs == {DocBA, DocTie, DocMixed, DocAlias}

WriteFiles(url) == {DataFile(es, g, url) : es \in WriteDocs, g \in BOOLEAN}

InitWrite ==
    InitWith(AssignCurated,
             ConfigsOf({<<U1>>, <<U1, U2>>, <<U2, U1>>}, {DefaultSoftMin},
                       {DefaultHardFail}, {DefaultRetries}),
             {RemoteFixed},
             CachesOf(WriteFiles(U1), {NoFile} \cup WriteFiles(U2)),
             {ReportAbsent})

SpecWrite == InitWrite /\ [][Next]_vars

----------------------------------------------------------------------------
(* SpecNorm: runs over every name of up to MaxLen characters (a lower-case *)
(* letter, an upper-case letter, a space, a punctuation mark) as the name  *)
(* of the single curated entry, against a source with fixed display names. *)

NormChars == {"a", "B", " ", "-"}

NormStrings == SeqsUpTo(NormChars, MaxLen)

\* an #EXTINF entry without tvg-id and tvg-name, named s after the comma
NormEntry(s) == [tvg_id |-> "", tvg_name |-> <<>>, disp |-> s]

\* a source with channels named "a", "a B" and "B"
NormDoc ==
    <<Chan("a", <<<<"a">>, <<"a", " ", "B">>>>), Chan("b", <<<<"B">>>>)>>

InitNorm ==
    InitWith(CuratedFiles({<<NormEntry(s)>> : s \in NormStrings}),
             ConfigsOf({<<U1>>}, {DefaultSoftMin}, {DefaultHardFail}, {0}),
             {(U1 :> Doc(NormDoc, TRUE)) @@ RemoteFixed},
             CachesOf({NoFile, DataFile(NormDoc, TRUE, U1)}, {NoFile}),
             {ReportAbsent})

SpecNorm == InitNorm /\ [][Next]_vars

----------------------------------------------------------------------------
(* Properties *)

\* the steps of main after the assignment pass
AfterAssign == pc \in {"gate", "write", "done"} /\ calls.download_epg > 0

\* coverage compared with a threshold given in 1/100
CovBelow(thr) == coverage[1] * 100 < thr * coverage[2]
CovAtLeast(thr) == coverage[1] * 100 >= thr * coverage[2]

GateDecided == pc = "done" /\ coverage # <<>>

OutputWritten ==
    outFile.exists /\ calls.write_final_xml = 1 /\ calls.gzip_output = 1

NoOutputWritten ==
    ~ outFile.exists /\ calls.write_final_xml = 0 /\ calls.gzip_output = 0

WarningsOf(r) == IF "warnings" \in DOMAIN r THEN r["warnings"] ELSE <<>>

\* the warnings the run has added to the ones load_report found
NewWarnings ==
    SubSeq(WarningsOf(rep), Len(WarningsOf(loaded)) + 1, Len(WarningsOf(rep)))

ReportPersisted == reportFile.exists /\ reportFile.content = rep /\ calls.write_report >= 1

\* C1: after the assignment pass no channel id is in the assignment sets of
\* two different sources.
C1_FirstMatchWins ==
    AfterAssign =>
        \A i, j \in 1..Len(per_source_assignments) :
            i < j => per_source_assignments[i][2] \cap per_source_assignments[j][2] = {}

\* C2: whenever a coverage is computed, matched_channels <= target_channels,
\* so the coverage is at most 1.
C2_CoverageAtMostOne ==
    coverage # <<>> =>
        /\ Cardinality(kept_all_ids) <=
              (IF wanted_ids # {} THEN Cardinality(wanted_ids) ELSE Cardinality(wanted_names))
        /\ coverage[1] <= coverage[2]

\* C3 as stated: whenever the coverage is at or above soft_min the run writes
\* the output and exits 0, for every pair of thresholds.
C3_SoftMinAlwaysSucceeds ==
    (GateDecided /\ CovAtLeast(config.soft_min)) => (rc = 0 /\ OutputWritten)

\* C3 amended: whenever the coverage is at or above soft_min and at or above
\* hard_fail_below the run writes the output and exits 0; with
\* soft_min <= coverage < hard_fail_below it exits 2 and writes no output.
C3_SoftMinSucceedsUnlessHardFail ==
    /\ (GateDecided /\ CovAtLeast(config.soft_min) /\ CovAtLeast(config.hard_fail))
          => (rc = 0 /\ OutputWritten)
    /\ (GateDecided /\ CovAtLeast(config.soft_min) /\ CovBelow(config.hard_fail))
          => (rc = 2 /\ NoOutputWritten)

C3_Witness ==
    /\ GateDecided
    /\ config.hard_fail > config.soft_min
    /\ CovAtLeast(config.hard_fail)
    /\ rc = 0
    /\ OutputWritten

\* C4: whenever the coverage is below hard_fail_below, the run adds a warning,
\* exits 2 and executes neither write_final_xml nor gzip_output.
C4_HardFailNoOutput ==
    (coverage # <<>> /\ CovBelow(config.hard_fail)) =>
        /\ NoOutputWritten
        /\ pc # "write"
        /\ pc = "done" =>
              /\ rc = 2
              /\ \E i \in 1..Len(NewWarnings) :
                    NewWarnings[i].code = "epg_coverage_below_hard_fail"
              /\ ReportPersisted

C4_Witness ==
    /\ GateDecided
    /\ CovBelow(config.hard_fail)
    /\ CovAtLeast(config.soft_min)
    /\ rc = 2

\* the coverage printed with four decimals, in 1/10000: the nearest to matched/target
IsCoverageValue(v) ==
    /\ 2 * (v * coverage[2] - coverage[1] * 10000) <= coverage[2]
    /\ 2 * (coverage[1] * 10000 - v * coverage[2]) <= coverage[2]

\* C5: whenever hard_fail_below <= coverage < soft_min, the run exits 0, the
\* output is written, and the report gains a warning that holds the coverage.
C5_SoftWarnProceeds ==
    (GateDecided /\ CovAtLeast(config.hard_fail) /\ CovBelow(config.soft_min)) =>
        /\ rc = 0
        /\ OutputWritten
        /\ ReportPersisted
        /\ \E i \in 1..Len(NewWarnings) :
              /\ NewWarnings[i].code = "epg_coverage_below_soft_min"
              /\ IsCoverageValue(NewWarnings[i].cov)

C5_Witness ==
    /\ GateDecided
    /\ config.soft_min = 80
    /\ config.hard_fail = 30
    /\ coverage = <<1, 2>>
    /\ rc = 0
    /\ Len(NewWarnings) = 1
    /\ NewWarnings[1].cov = 5000

\* every configured source was tried and none was fetched
AllSourcesFailed ==
    /\ config.epg # <<>>
    /\ Len(returns) = Len(config.epg)
    /\ \A i \in 1..Len(returns) : returns[i].path = "none"

\* the persisted report has a field fetched_sources, at the top or under epg
RecordsFetchedSources(r, n) ==
    \/ "fetched_sources" \in DOMAIN r /\ r["fetched_sources"] = n
    \/ /\ "epg" \in DOMAIN r
       /\ "fetched_sources" \in DOMAIN r["epg"]
       /\ r["epg"]["fetched_sources"] = n

\* the persisted report lists one outcome per configured url, in order
RecordsOutcomes(r) ==
    /\ "epg" \in DOMAIN r
    /\ "sources" \in DOMAIN r["epg"]
    /\ Len(r["epg"]["sources"]) = Len(config.epg)
    /\ \A i \in 1..Len(config.epg) :
          /\ r["epg"]["sources"][i].url = config.epg[i]
          /\ r["epg"]["sources"][i].ok = (returns[i].path # "none")
          /\ r["epg"]["sources"][i].reason = returns[i].reason

\* C6 as stated: when every source fails to fetch, the run exits 2 without the
\* assignment pass and without output, and persists a report that records
\* fetched_sources = 0 and the per-source outcomes.
C6_AllFailedRecordsFetchedSources ==
    (pc = "done" /\ AllSourcesFailed) =>
        /\ rc = 2
        /\ calls.index = 0
        /\ NoOutputWritten
        /\ ReportPersisted
        /\ RecordsOutcomes(reportFile.content)
        /\ RecordsFetchedSources(reportFile.content, 0)

\* C6 amended: when every source fails to fetch, the run exits 2 without the
\* assignment pass and without output, and persists a report that records the
\* per-source outcomes, every one with ok = false, and the warning
\* epg_all_sources_failed_download (the count of fetched sources is no field
\* of the report).
C6_AllFailedHardFail ==
    /\ AllSourcesFailed => calls.index = 0 /\ NoOutputWritten /\ pc \in {"fetch", "done"}
    /\ (pc = "done" /\ AllSourcesFailed) =>
          /\ rc = 2
          /\ ReportPersisted
          /\ RecordsOutcomes(reportFile.content)
          /\ \A i \in 1..Len(config.epg) : ~ reportFile.content["epg"]["sources"][i].ok
          /\ NewWarnings = <<Warning("epg_all_sources_failed_download")>>
          /\ ~ \E n \in 0..Len(config.epg) : RecordsFetchedSources(reportFile.content, n)

C6_Witness ==
    /\ pc = "done"
    /\ AllSourcesFailed
    /\ Len(config.epg) = 2
    /\ calls.get > 2
    /\ rc = 2

\* C7: every terminating path of main persists the report before returning.
C7_ReportAlwaysPersisted == pc = "done" => calls.write_report >= 1

\* C8: if the curated list yields no target of either kind, no download_epg
\* call and no GET happens in the run.
C8_NoTargetsNoFetch ==
    (pc \notin {"start", "load", "targets"} /\ wanted_ids = {} /\ wanted_names = {}) =>
        calls.download_epg = 0 /\ calls.get = 0

\* C9: when the curated list is absent or no EPG source is configured, the run
\* ends with exit code 2 and has issued no network request.
C9_ConfigErrorBeforeNetwork ==
    (~ curated.exists \/ config.epg = <<>>) =>
        /\ calls.get = 0
        /\ calls.download_epg = 0
        /\ pc \in {"start", "load", "done"}
        /\ pc = "done" => rc = 2

C9_Witness ==
    /\ pc = "done"
    /\ rc = 2
    /\ ~ curated.exists
    /\ config.epg # <<>>
    /\ \A i \in 1..Len(config.epg) : ~ ExistsNonEmpty(cache[DestOf(config.epg[i])])

\* the reason code of what a GET did
ReasonOfGet(kind) ==
    CASE kind \in {"exc_get", "exc_stream"} -> "exc"
      [] kind = "http_error" -> "http"
      [] kind = "body_empty" -> "empty"
      [] kind = "body_full" -> "ok"

\* what C10 says of a returned call, but for the upper bound on its GETs
CallAsClaimed(r) ==
    /\ r.hit => r.gets = 0 /\ r.path = DestOf(r.url) /\ r.reason = "cache_hit"
    /\ ~ r.hit =>
          /\ r.gets >= 1
          /\ r.oks <= 1
          /\ r.oks = 1 <=> r.last = "body_full"
          /\ r.path = (IF r.oks = 1 THEN DestOf(r.url) ELSE "none")
          /\ r.reason = ReasonOfGet(r.last)

\* the most GETs a call can make
AttemptBound == IF config.retries + 1 >= 1 THEN config.retries + 1 ELSE 1

\* C10 as stated: a call issues no GET on a cache hit and otherwise between 1
\* and maxRetries + 1 GETs, stops at the first successful one and returns
\* (none, reason of the last attempt) when all fail.
C10_AttemptsAtMostRetriesPlusOne ==
    \A i \in 1..Len(returns) :
        /\ CallAsClaimed(returns[i])
        /\ ~ returns[i].hit => returns[i].gets <= config.retries + 1

\* C10 amended: ... and otherwise between 1 and max(1, maxRetries + 1) GETs
\* (one GET is made even when maxRetries is negative); a call that returns
\* none has made all of them; the running call never exceeds the bound.
C10_AttemptsBounded ==
    /\ \A i \in 1..Len(returns) :
          /\ CallAsClaimed(returns[i])
          /\ ~ returns[i].hit => returns[i].gets <= AttemptBound
          /\ (~ returns[i].hit /\ returns[i].path = "none") => returns[i].gets = AttemptBound
    /\ pc = "get" => call.gets < AttemptBound /\ call.oks = 0

C10_Witness ==
    \E i \in 1..Len(returns) :
        /\ ~ returns[i].hit
        /\ returns[i].gets = 2
        /\ returns[i].path = "none"
        /\ returns[i].reason = "empty"

----------------------------------------------------------------------------
(* Properties of the assignment pass and of the output writer *)

\* the files of the download_epg calls that returned one, in call order
RECURSIVE FetchedPaths(_)
FetchedPaths(rs) ==
    IF rs = <<>> THEN <<>>
    ELSE (IF Head(rs).path # "none" THEN <<Head(rs).path>> ELSE <<>>)
         \o FetchedPaths(Tail(rs))

SomeSourceFetched == \E i \in 1..Len(returns) : returns[i].path # "none"

\* the channel elements of a file that carry an id, in document order
ChannelElems(f) ==
    IF f.kind # "data" THEN <<>>
    ELSE SelectSeq(f.elems, LAMBDA el : el.tag = "channel" /\ el.id # "")

\* the ids of the channel elements a streaming parse of a file yields
ChannelIdsOf(f) == {ChannelElems(f)[i].id : i \in 1..Len(ChannelElems(f))}

\* C11: the fetched files are the files of the successful sources in
\* configured order; a run with a fetched source does not end with the
\* all-sources-failed abort and, when there are targets, reaches the
\* assignment pass; the pass takes the fetched files in order, each matching
\* every outstanding id its document holds, and stops before a file only
\* when no target is outstanding, whether or not earlier files were malformed.
C11_PerSourceFailuresRecovered ==
    /\ epg_paths = FetchedPaths(returns)
    /\ (pc = "done" /\ SomeSourceFetched /\ Len(returns) = Len(config.epg)) =>
          /\ \A i \in 1..Len(NewWarnings) :
                NewWarnings[i].code # "epg_all_sources_failed_download"
          /\ (wanted_ids # {} \/ wanted_names # {}) => calls.index >= 1
    /\ AfterAssign =>
          /\ Len(processed) <= Len(epg_paths)
          /\ \A k \in 1..Len(processed) :
                /\ processed[k].path = epg_paths[k]
                /\ processed[k].ids \cap ChannelIdsOf(cache[epg_paths[k]])
                      \subseteq processed[k].matched
          /\ Len(processed) < Len(epg_paths) =>
                (remaining_ids = {} /\ remaining_names = {})

\* the first source fails, the second is fetched and malformed, the third is
\* fetched, indexed and matched
C11_Witness ==
    /\ pc = "done"
    /\ rc = 0
    /\ config.epg = <<U1, U3, U2>>
    /\ returns[1].path = "none"
    /\ epg_paths = <<"a.xml", "b.xml">>
    /\ ~ cache["a.xml"].good
    /\ Len(processed) = 2
    /\ processed[2].matched # {}

\* C12: a processed source whose document raises a parse error, at whatever
\* position, has an empty channel index: its pass matches no id and no name
\* and adds no record to the global record map.
C12_ParseErrorEmptyIndex ==
    \A k \in 1..Len(processed) :
        ~ cache[processed[k].path].good =>
            /\ processed[k].matched = {}
            /\ processed[k].records = (IF k = 1 THEN <<>> ELSE processed[k - 1].records)

\* the passes made so far whose source has id cid in its channel index
PassesHolding(cid) ==
    {k \in 1..Len(processed) : cid \in ChannelIdsOf(cache[processed[k].path])}

\* the assignment set of a file, empty when it has none
AssignmentOf(path) ==
    IF path \in DictKeys(per_source_assignments)
    THEN DictGet(per_source_assignments, path) ELSE {}

\* C13 as stated: every id in kept_ids is in the assignment set of the first source,
\* in configured order, whose channel index contains the id, and no source
\* is assigned an id its index lacks.
C13_FirstHolderAssigned ==
    /\ \A cid \in kept_all_ids :
          /\ PassesHolding(cid) # {}
          /\ \A k \in PassesHolding(cid) :
                (\A j \in PassesHolding(cid) : k <= j) =>
                    cid \in AssignmentOf(processed[k].path)
    /\ \A k \in 1..Len(processed) :
          AssignmentOf(processed[k].path) \subseteq ChannelIdsOf(cache[processed[k].path])

\* a channel element of the file with id cid has the name n among its
\* normalized display names
ElementNamed(f, cid, n) ==
    \E i \in 1..Len(ChannelElems(f)) :
        /\ ChannelElems(f)[i].id = cid
        /\ n \in Range(DisplayNorms(ChannelElems(f)[i]))

\* C13 amended: a kept id that is a wanted tvg-id is in the assignment set of
\* the first source, in configured order, whose channel index contains it; a
\* kept id that is no wanted tvg-id is in the assignment set of a source that
\* holds it under a name outstanding at that source, which need not be the
\* first source whose index contains the id; no source is assigned an id its
\* index lacks.
C13_FirstMatcherAssigned ==
    /\ \A cid \in kept_all_ids \cap wanted_ids :
          /\ PassesHolding(cid) # {}
          /\ \A k \in PassesHolding(cid) :
                (\A j \in PassesHolding(cid) : k <= j) =>
                    cid \in AssignmentOf(processed[k].path)
    /\ \A cid \in kept_all_ids \ wanted_ids :
          \E k \in PassesHolding(cid) :
              /\ cid \in AssignmentOf(processed[k].path)
              /\ \E n \in processed[k].names :
                    ElementNamed(cache[processed[k].path], cid, n)
    /\ \A k \in 1..Len(processed) :
          AssignmentOf(processed[k].path) \subseteq ChannelIdsOf(cache[processed[k].path])

\* the first source lacks a wanted id and the second has it: the id is
\* assigned to the second and not to the first
C13_Witness ==
    /\ AfterAssign
    /\ Len(processed) = 2
    /\ \E cid \in wanted_ids :
          /\ cid \notin ChannelIdsOf(cache[processed[1].path])
          /\ cid \in ChannelIdsOf(cache[processed[2].path])
          /\ cid \in AssignmentOf(processed[2].path)
          /\ cid \notin AssignmentOf(processed[1].path)
          /\ AssignmentOf(processed[1].path) # {}

\* the union of the assignment sets of all sources
AllAssigned ==
    UNION {per_source_assignments[i][2] : i \in 1..Len(per_source_assignments)}

\* C14: at every point of the assignment pass and after it, kept_ids is the
\* union of the sources' assignment sets; every id in it is a wanted tvg-id
\* or is held, in a processed source, by a channel element with a wanted
\* name among its display names; every id in it is a key of the channel
\* index of a processed source.
C14_KeptIdsUnionOfAssignments ==
    /\ kept_all_ids = AllAssigned
    /\ \A k \in 1..Len(processed) :
          processed[k].kept =
              UNION {processed[j].matched : j \in 1..k}
    /\ \A cid \in kept_all_ids :
          /\ \/ cid \in wanted_ids
             \/ \E k \in 1..Len(processed), n \in wanted_names :
                   ElementNamed(cache[processed[k].path], cid, n)
          /\ PassesHolding(cid) # {}

\* two sources have an assignment, one id was kept through the name fallback
C14_Witness ==
    /\ pc = "assign"
    /\ Len(per_source_assignments) = 2
    /\ kept_all_ids \ wanted_ids # {}
    /\ kept_all_ids \cap wanted_ids # {}

\* the channel records and the programme records of an output document
ChannelsIn(doc) == SelectSeq(doc, LAMBDA r : r.tag = "channel")
ProgrammesIn(doc) == SelectSeq(doc, LAMBDA r : r.tag = "programme")

\* the assignment pass as a function of the targets and the fetched files
PassResult ==
    assignment_pass(PassState(wanted_ids, wanted_names, <<>>, <<>>, {}), epg_paths, cache)

\* every configured source was a cache hit
AllCacheHits ==
    /\ Len(returns) = Len(config.epg)
    /\ \A i \in 1..Len(returns) : returns[i].hit

\* C15: kept_ids, the assignments and the output document are a function of
\* the curated list and of the fetched files, whatever order the sets are
\* iterated in; and when every source is in the cache, the fetched files are
\* a function of the configuration. Two runs from the same inputs hence end
\* with the same kept_ids, assignments and output document.
C15_Deterministic ==
    /\ AllCacheHits => epg_paths = [i \in 1..Len(config.epg) |-> DestOf(config.epg[i])]
    /\ calls.download_epg > 0 =>
          /\ wanted_ids = ParseWantedIds(curated.entries)
          /\ wanted_names = ParseWantedNames(curated.entries)
    /\ AfterAssign =>
          /\ kept_all_ids = PassResult.kept_all_ids
          /\ per_source_assignments = PassResult.per_source_assignments
          /\ channel_xml_by_id_global = PassResult.channel_xml_by_id_global
    /\ outFile.exists =>
          outFile.doc = write_final_xml(PassResult.kept_all_ids,
                                        PassResult.channel_xml_by_id_global,
                                        PassResult.per_source_assignments, cache)

\* a run that iterated over two outstanding names, both matched by one
\* source to different ids, and wrote programmes of both
C15_Witness ==
    /\ pc = "done"
    /\ rc = 0
    /\ \E k \in 1..Len(processed) :
          /\ Cardinality(processed[k].names) = 2
          /\ processed[k].names_left = {}
          /\ Cardinality(processed[k].matched) = 2
    /\ Len(ProgrammesIn(outFile.doc)) = 2

\* x is before y in the lexicographic order of ids
IdLess(x, y) == <<x, y>> \in {<<"a", "b">>, <<"a", "c">>, <<"b", "c">>}

\* C16: when main returns 0 the output was written in this run; its channel
\* records come before every programme record, there is exactly one for
\* each id in kept_ids and none for another id, and they are in
\* lexicographic order of id whatever the order in the source documents.
C16_ChannelSectionSortedKeptIds ==
    (pc = "done" /\ rc = 0) =>
        /\ OutputWritten
        /\ LET doc == outFile.doc
               ch  == ChannelsIn(outFile.doc)
           IN  /\ \A i, j \in 1..Len(doc) :
                     (doc[i].tag = "channel" /\ doc[j].tag = "programme") => i < j
               /\ {ch[i].id : i \in 1..Len(ch)} = kept_all_ids
               /\ Len(ch) = Cardinality(kept_all_ids)
               /\ \A i, j \in 1..Len(ch) : i < j => IdLess(ch[i].id, ch[j].id)

\* the first source has channel b before channel a, both are kept, and the
\* output holds programmes
C16_Witness ==
    /\ pc = "done"
    /\ rc = 0
    /\ kept_all_ids = {"a", "b"}
    /\ Len(processed) >= 1
    /\ cache[processed[1].path].elems = DocBA
    /\ processed[1].matched = {"a", "b"}
    /\ ProgrammesIn(outFile.doc) # <<>>

\* C17: every programme record of the output was read from a file the writer
\* opened, has its channel in that file's assignment set and so in kept_ids;
\* the writer opens only files with a non-empty assignment set, never a
\* fetched file without one.
C17_ProgrammesOnlyFromAssignedSources ==
    outFile.exists =>
        /\ \A i \in 1..Len(opened) : AssignmentOf(opened[i]) # {}
        /\ \A i \in 1..Len(epg_paths) :
              AssignmentOf(epg_paths[i]) = {} => epg_paths[i] \notin Range(opened)
        /\ \A r \in Range(ProgrammesIn(outFile.doc)) :
              /\ r.channel \in kept_all_ids
              /\ \E p \in Range(opened) :
                    /\ r \in Range(cache[p].elems)
                    /\ r.channel \in AssignmentOf(p)

\* the output holds a programme, an opened file holds a programme that was
\* left out, and a fetched file without assignment was not opened
C17_Witness ==
    /\ outFile.exists
    /\ ProgrammesIn(outFile.doc) # <<>>
    /\ \E p \in Range(opened) :
          \E r \in Range(ProgrammesIn(cache[p].elems)) :
              r \notin Range(ProgrammesIn(outFile.doc))
    /\ \E i \in 1..Len(epg_paths) :
          /\ AssignmentOf(epg_paths[i]) = {}
          /\ ProgrammesIn(cache[epg_paths[i]].elems) # <<>>
          /\ epg_paths[i] \notin Range(opened)

\* the channel index of the file of the k-th pass
IndexOfPass(k) == index_epg_channels(cache[processed[k].path])

\* the first pass, up to the k-th, whose source has cid in its index
FirstHolder(cid, k) ==
    CHOOSE j \in 1..k :
        /\ cid \in ChannelIdsOf(cache[processed[j].path])
        /\ \A i \in 1..(j - 1) : cid \notin ChannelIdsOf(cache[processed[i].path])

\* C18: after every pass the global record map holds, for exactly the ids of
\* the indexes processed so far, the record of the first processed source
\* whose index contains the id; a later pass leaves a stored record as it
\* is; the channel records of the written output are the stored ones.
C18_FirstWriterWins ==
    /\ \A k \in 1..Len(processed) :
          LET recs == processed[k].records
          IN  /\ DictKeys(recs) =
                    UNION {ChannelIdsOf(cache[processed[j].path]) : j \in 1..k}
              /\ \A cid \in DictKeys(recs) :
                    DictGet(recs, cid) = DictGet(IndexOfPass(FirstHolder(cid, k)), cid).xml
              /\ k > 1 =>
                    \A cid \in DictKeys(processed[k - 1].records) :
                        DictGet(recs, cid) = DictGet(processed[k - 1].records, cid)
    /\ processed # <<>> => channel_xml_by_id_global = processed[Len(processed)].records
    /\ outFile.exists =>
          \A r \in Range(ChannelsIn(outFile.doc)) :
              r = DictGet(channel_xml_by_id_global, r.id)

\* both sources define a kept id, with different records; the output holds
\* the record of the first
C18_Witness ==
    /\ outFile.exists
    /\ Len(processed) = 2
    /\ \E cid \in kept_all_ids :
          /\ cid \in DictKeys(IndexOfPass(1)) \cap DictKeys(IndexOfPass(2))
          /\ DictGet(IndexOfPass(1), cid).xml # DictGet(IndexOfPass(2), cid).xml
          /\ DictGet(IndexOfPass(1), cid).xml \in Range(outFile.doc)
          /\ DictGet(IndexOfPass(2), cid).xml \notin Range(outFile.doc)

\* the ids of the channel elements of a file that have n among their
\* normalized display names
IdsNamed(f, n) ==
    {ChannelElems(f)[i].id :
        i \in {j \in 1..Len(ChannelElems(f)) : n \in Range(DisplayNorms(ChannelElems(f)[j]))}}

\* the id of the first channel element, in document order, that has n among
\* its normalized display names
FirstElementNamed(f, n) ==
    LET els == ChannelElems(f)
        i   == CHOOSE j \in 1..Len(els) :
                  /\ n \in Range(DisplayNorms(els[j]))
                  /\ \A h \in 1..(j - 1) : n \notin Range(DisplayNorms(els[h]))
    IN  els[i].id

\* C19: when an outstanding name is a display name of several channels of
\* the source being processed, the pass matches the id of the first channel
\* element, in document order, whose display names include the name, also
\* in documents that repeat a channel id.
C19_NameTieBreakFirstElement ==
    \A k \in 1..Len(processed) :
        \A n \in processed[k].names :
            Cardinality(IdsNamed(cache[processed[k].path], n)) >= 2 =>
                FirstElementNamed(cache[processed[k].path], n) \in processed[k].matched

\* C20: after the pass of a source no outstanding id is a key of its channel
\* index and no outstanding name is a key of its name map: exactly the ids
\* of the index and the names of the map were removed; from pass to pass the
\* outstanding sets never grow and kept_ids never shrinks.
C20_RemainingShrinkKeptGrows ==
    /\ \A k \in 1..Len(processed) :
          LET p == processed[k]
          IN  /\ p.ids_left \cap ChannelIdsOf(cache[p.path]) = {}
              /\ p.names_left \cap DOMAIN build_name_to_ids(IndexOfPass(k)) = {}
              /\ p.ids_left = p.ids \ ChannelIdsOf(cache[p.path])
              /\ p.names_left = p.names \ DOMAIN build_name_to_ids(IndexOfPass(k))
              /\ p.ids = (IF k = 1 THEN wanted_ids ELSE processed[k - 1].ids_left)
              /\ p.names = (IF k = 1 THEN wanted_names ELSE processed[k - 1].names_left)
              /\ (IF k = 1 THEN {} ELSE processed[k - 1].kept) \subseteq p.kept
    /\ processed # <<>> =>
          /\ remaining_ids = processed[Len(processed)].ids_left
          /\ remaining_names = processed[Len(processed)].names_left
          /\ kept_all_ids = processed[Len(processed)].kept

\* the first pass removes an id and a name and leaves a name, the second
\* removes the rest; the first pass matched a single id
C20_Witness ==
    /\ Len(processed) = 2
    /\ processed[1].ids_left # processed[1].ids
    /\ processed[1].names_left # processed[1].names
    /\ processed[1].names_left # {}
    /\ Cardinality(processed[1].matched) = 1
    /\ processed[2].names_left = {}
    /\ processed[2].kept # processed[1].kept

----------------------------------------------------------------------------
(* Properties of the cache directory and of norm *)

\* a file that holds the whole document of a url with its file name, as a
\* transfer that ended successfully leaves it
WholeFile(name, f) ==
    \E u \in DOMAIN remote :
        /\ DestOf(u) = name
        /\ f = DataFile(remote[u].elems, remote[u].good, u)

\* j is the next download_epg call after i for the url of i
NextCallFor(i, j) ==
    /\ i < j
    /\ returns[j].url = returns[i].url
    /\ \A k \in (i + 1)..(j - 1) : returns[k].url # returns[i].url

\* C21: over the download_epg calls made against one cache directory, the
\* call for a url that follows a call for the same url that returned
\* (none, reason) is not answered as a cache hit, and the file of a path
\* returned with reason cache_hit was left by a transfer that ended
\* successfully.
C21_FailedFetchNotCached ==
    /\ \A i, j \in 1..Len(returns) :
          (NextCallFor(i, j) /\ returns[i].path = "none") => ~ returns[j].hit
    /\ \A j \in 1..Len(returns) :
          returns[j].hit => WholeFile(returns[j].path, cache[returns[j].path])

\* the configured urls are pairwise distinct
DistinctUrls ==
    \A i, j \in 1..Len(config.epg) : i # j => config.epg[i] # config.epg[j]

\* C22: when the configured urls are pairwise distinct, no two download_epg
\* calls return the same cache file, and the file a call returns holds
\* content obtained from the url of the call.
C22_DistinctUrlsDistinctFiles ==
    DistinctUrls =>
        /\ \A i, j \in 1..Len(returns) :
              (i # j /\ returns[i].path # "none") => returns[i].path # returns[j].path
        /\ \A j \in 1..Len(returns) :
              returns[j].path # "none" => cache[returns[j].path].origin = returns[j].url

\* no leading space, no trailing space, no two consecutive spaces
Canonical(n) ==
    /\ n # <<>> => (n[1] # " " /\ n[Len(n)] # " ")
    /\ \A i \in 1..(Len(n) - 1) : ~ (n[i] = " " /\ n[i + 1] = " ")

\* a name without its punctuation, its runs of spaces reduced to one space
\* and no space at its ends: two names differ only in punctuation and
\* spacing when they agree in this
Squeeze(s) ==
    LET kept == SelectSeq(s, LAMBDA c : IsWordChar(c) \/ IsSpace(c))
    IN  CollapseSpaces(Strip(kept))

\* the display names of the channel elements of the cached files
CachedDisplayNames ==
    UNION {UNION {Range(ChannelElems(cache[name])[i].names) :
                     i \in 1..Len(ChannelElems(cache[name]))} :
              name \in DOMAIN cache}

\* C23: norm is idempotent and its results have no space at either end and
\* no two consecutive spaces, for the curated names once they are parsed and
\* for the display names of the sources once a source is indexed; a curated
\* name and a display name that differ only in punctuation and spacing have
\* the same norm.
C23_NormIdempotentCanonical ==
    /\ \A n \in wanted_names : norm(n) = n /\ Canonical(n)
    /\ Len(processed) > 0 =>
          /\ \A t \in CachedDisplayNames :
                norm(norm(t)) = norm(t) /\ Canonical(norm(t))
          /\ \A i \in 1..Len(curated.entries) :
                \A t \in CachedDisplayNames :
                    Squeeze(EntryName(curated.entries[i])) = Squeeze(t) =>
                        norm(EntryName(curated.entries[i])) = norm(t)

====
